---- MODULE Spec2Model ----
(***************************************************************************)
(* The drift-bottle store of ryOS: the message-in-bottle HTTP endpoint     *)
(* (three handler files, the edge one with an awaited trim and the nodejs  *)
(* ones with a background trim) over one Redis list.                       *)
(*                                                                         *)
(* The Redis list, the handler invocations in flight and the background    *)
(* trims still outstanding are the state.  Every store command is atomic   *)
(* at the store; a handler is suspended at each await, so other handlers'  *)
(* commands interleave there.                                              *)
(***************************************************************************)
EXTENDS Integers, Sequences, FiniteSets, TLC

VARIABLES
    list,             \* the Redis list at BOTTLES_KEY, index 0 first
    pushed,           \* history: every bottle lpush has prepended, newest first
    slot,             \* handler invocations: position, locals, response
    bgTrims,          \* background ltrim commands issued and not yet settled
    trimErrorLogged,  \* a trim failure has been written to the error log
    redisInstance,    \* nodejs handler's cached client: created or not
    env,              \* which store credentials the deployment configures
    runtime,          \* the handler file deployed: "edge" or "nodejs"
    pusherInstance,   \* server: the cached Pusher instance exists
    pusherEnv,        \* server: which PUSHER_* credentials are set
    call,             \* server: the publish call in flight and its promise
    triggerCalls,     \* server: pusher.trigger calls made so far
    pusherLog,        \* server: what the publisher has written to the console
    pusherClient,     \* browser: globalThis.__pusherClient, 0 while undefined
    constructed,      \* browser: transport clients constructed so far
    subs,             \* browser: the subscriptions created, in order
    events,           \* browser: the events the transport has delivered
    channelState,     \* browser: the client's channels and their handshake
    adapter,          \* browser: the usePusherRealtime instances
    naming            \* the last channel-name call: its arguments and result

storeVars == <<list, pushed, slot, bgTrims, trimErrorLogged, redisInstance, env, runtime>>
publisherVars == <<pusherInstance, pusherEnv, call, triggerCalls, pusherLog>>

clientVars == <<pusherClient, constructed, subs, events, channelState, adapter>>
namingVars == <<naming>>

\* the variables outside the bottle store, the publisher, the browser client
\* and the channel names
notStore == <<publisherVars, clientVars, namingVars>>
notPublisher == <<storeVars, clientVars, namingVars>>
notClient == <<storeVars, publisherVars, namingVars>>
notNaming == <<storeVars, publisherVars, clientVars>>

vars == <<storeVars, publisherVars, clientVars, namingVars>>

-----------------------------------------------------------------------------
(* Bounds of the model *)

NumSlots == 2       \* handler invocations in flight at once
MaxProduce == 3     \* prepends in one behaviour
MaxTime == 1        \* values Date.now() takes
MaxRand == 2        \* values of the random id suffix
MaxStored == 1      \* entries of a list written by others
MaxLayers == 4      \* layers of string encoding around a stored object
MaxItems == 2       \* items of one batch
MaxTriggers == 3    \* pusher.trigger calls in one behaviour
NumAdapters == 1    \* usePusherRealtime instances
MaxSubs == 2        \* subscriptions created in one behaviour
MaxAdapterSubs == 3 \* the same where only an adapter subscribes
MaxEvents == 2      \* events delivered in one behaviour
MaxPayload == 2     \* distinct event payloads
MaxUnsubscribes == 2  \* unsubscribe() calls counted per subscription
MaxNameLen == 2     \* characters of a user id or topic name

(* Program constants, scaled down so that their cases are reached *)

MAX_BOTTLES == 2            \* 10000 in the source
MAX_MESSAGE_LENGTH == 2     \* 1000 in the source

Slots == 1..NumSlots
Times == 1..MaxTime
Rands == 1..MaxRand

Min(a, b) == IF a < b THEN a ELSE b

-----------------------------------------------------------------------------
(* Strings are sequences of characters; " " is the whitespace character. *)

RECURSIVE TrimStart(_)
TrimStart(s) ==
    IF s # <<>> /\ Head(s) = " " THEN TrimStart(Tail(s)) ELSE s

RECURSIVE TrimEnd(_)
TrimEnd(s) ==
    IF s # <<>> /\ s[Len(s)] = " " THEN TrimEnd(SubSeq(s, 1, Len(s) - 1)) ELSE s

\* String.prototype.trim
Trim(s) == TrimEnd(TrimStart(s))

Messages ==
    { <<>>, <<" ">>, <<"a">>, <<" ", "a">>, <<"a", "a">>,
      <<" ", "a", "a">>, <<"a", "a", "a">> }

-----------------------------------------------------------------------------
(* Request bodies: what req.json() yields, or that it throws. *)

JUndefined == [type |-> "undefined", v |-> <<>>]
JNumber == [type |-> "number", v |-> 1]
JString(s) == [type |-> "string", v |-> s]

InvalidJson == [kind |-> "invalid", message |-> JUndefined]
NullBody == [kind |-> "null", message |-> JUndefined]
ObjectBody(m) == [kind |-> "object", message |-> m]
NoBody == [kind |-> "none", message |-> JUndefined]

Bodies ==
    {InvalidJson, NullBody, ObjectBody(JUndefined), ObjectBody(JNumber)}
        \cup {ObjectBody(JString(m)) : m \in Messages}

Methods == {"POST", "GET", "OPTIONS", "PUT"}
Runtimes == {"edge", "nodejs"}

\* the requests of the concurrent-queue specification: valid throws and picks
QueueMethods == {"POST", "GET"}
QueueBodies == {ObjectBody(JString(<<" ", "a">>)), ObjectBody(JString(<<"a", "a">>))}

\* the two Date.now() calls of one bottle: the second is not earlier
TimePairs == {p \in Times \X Times : p[1] <= p[2]}

-----------------------------------------------------------------------------
(* Bottles, responses, handler invocations *)

NoId == <<0, 0>>
NoBottle == [id |-> NoId, message |-> <<>>, timestamp |-> 0]

Resp(status, error, message, bottle) ==
    [status |-> status, error |-> error, message |-> message, bottle |-> bottle]

NoResp == Resp(0, "", "", NoBottle)

IdleSlot ==
    [pc |-> "idle", method |-> "none", body |-> NoBody, bottle |-> NoBottle,
     randomIndex |-> -1, resp |-> NoResp]

\* the handler returns resp; its locals are gone
Done(r, resp) ==
    [r EXCEPT !.pc = "done", !.resp = resp, !.bottle = NoBottle, !.randomIndex = -1]

-----------------------------------------------------------------------------
(* Values in the store and as the store client hands them back.            *)
(* A datum is a JSON value under `layers` layers of string encoding:       *)
(* layers = 0 is the value itself, 1 its JSON text, 2 the JSON text of     *)
(* that text.  kind "text" is a string that is not JSON.                   *)

JsonNull ==
    [kind |-> "null", id |-> JUndefined, message |-> JUndefined,
     timestamp |-> JUndefined]

NullData == [layers |-> 0, json |-> JsonNull]

\* the object JSON.stringify serialises: id and message strings, timestamp a number
JsonOfBottle(b) ==
    [kind |-> "object", id |-> JString(b.id), message |-> JString(b.message),
     timestamp |-> [type |-> "number", v |-> b.timestamp]]

\* JSON.stringify(bottle)
Stringify(b) == [layers |-> 1, json |-> JsonOfBottle(b)]

TypeOf(d) ==
    IF d.layers > 0 \/ d.json.kind = "text" THEN "string"
    ELSE IF d.json.kind \in {"object", "null"} THEN "object"
    ELSE d.json.kind

\* !x for a datum
Falsy(d) == d.layers = 0 /\ d.json.kind = "null"

\* a presence check that lets the empty string and 0 through
FieldFalsyLax(f) == f.type \in {"undefined", "null"}

\* !x for a field of a parsed object
FieldFalsy(f) ==
    \/ f.type \in {"undefined", "null"}
    \/ f.type = "string" /\ f.v = <<>>
    \/ f.type = "number" /\ f.v = 0

\* a parse that keeps decoding for as long as the result is a string
JsonParseDeep(d) ==
    IF d.layers > 0
    THEN [ok |-> TRUE, data |-> [d EXCEPT !.layers = 0]]
    ELSE [ok |-> FALSE, data |-> d]

\* JSON.parse of a string datum: one layer less, or a throw
JsonParse(d) ==
    IF d.layers > 0
    THEN [ok |-> TRUE, data |-> [d EXCEPT !.layers = d.layers - 1]]
    ELSE [ok |-> FALSE, data |-> d]

-----------------------------------------------------------------------------
(* Redis list commands *)

\* a prepend that lands at the tail instead (RPUSH)
LPushAtTail(l, e) == l \o <<e>>

\* a write that replaces the value instead of prepending to it
LPushReplacing(l, e) == <<e>>

\* LPUSH key element
LPush(l, e) == <<e>> \o l

\* a trim that counts its range from the tail and so drops the newest
LTrimFromTail(l, start, stop) ==
    IF start > Min(stop, Len(l) - 1) THEN <<>>
    ELSE SubSeq(l, Len(l) - Min(stop, Len(l) - 1) + start, Len(l))

\* LTRIM key start stop, 0 <= start, indices inclusive
LTrim(l, start, stop) ==
    IF start > Min(stop, Len(l) - 1) THEN <<>>
    ELSE SubSeq(l, start + 1, Min(stop, Len(l) - 1) + 1)

\* LLEN key
LLen(l) == Len(l)

\* LINDEX key index, 0 <= index: the element, or null past the end
LIndex(l, i) == IF i < Len(l) THEN l[i + 1] ELSE NullData

\* What the client returns for a stored string: deserialised, as stored,
\* or with one more layer of encoding.
ClientViews(e) ==
    IF e = NullData THEN {NullData}
    ELSE {[e EXCEPT !.layers = k] : k \in {n \in (e.layers - 1)..(e.layers + 1) : n >= 0}}

\* a trim one element too generous: ltrim(key, 0, MAX_BOTTLES)
TrimToCapacityOneMore(l) == LTrim(l, 0, MAX_BOTTLES)

\* redis.ltrim(BOTTLES_KEY, 0, MAX_BOTTLES - 1)
TrimToCapacity(l) == LTrim(l, 0, MAX_BOTTLES - 1)

-----------------------------------------------------------------------------
(* Responses *)

ConfigErrorResp ==
    Resp(500, "Server configuration error", "Redis is not configured", NoBottle)
OptionsResp == Resp(200, "", "", NoBottle)
InvalidBodyResp ==
    Resp(400, "Invalid request body", "Request body must be valid JSON", NoBottle)
EmptyMessageResp ==
    Resp(400, "Message is required and cannot be empty", "", NoBottle)
TooLongResp == Resp(400, "Message is too long (max 1000 characters)", "", NoBottle)
SaveFailedResp == Resp(500, "Failed to save bottle", "redisError.message", NoBottle)
EmptySeaResp ==
    Resp(404, "No bottles in the sea",
         "The sea is empty. Be the first to throw a bottle!", NoBottle)
NotFetchedResp ==
    Resp(500, "Failed to retrieve bottle", "Could not fetch bottle from database",
         NoBottle)
CorruptResp == Resp(500, "Failed to parse bottle", "Bottle data is corrupted", NoBottle)
RetrieveFailedResp ==
    Resp(500, "Failed to retrieve bottle", "redisError.message", NoBottle)
MethodNotAllowedResp == Resp(405, "Method not allowed", "", NoBottle)
\* the unexpected error leaves the handler: there is no response
InternalErrorEscapes == Resp(0, "", "", NoBottle)

InternalErrorResp == Resp(500, "Internal server error", "error.message", NoBottle)

\* POST success: id and timestamp of the bottle, no message
ThrowResp(b) ==
    Resp(200, "", "", [id |-> b.id, message |-> <<>>, timestamp |-> b.timestamp])

\* a success response that loses the timestamp
PickRespNoTimestamp(b) ==
    Resp(200, "", "", [id |-> b.id, message |-> b.message, timestamp |-> 0])

\* GET success: id, message and timestamp of the parsed bottle
PickResp(b) ==
    Resp(200, "", "", [id |-> b.id, message |-> b.message, timestamp |-> b.timestamp])

-----------------------------------------------------------------------------
(* POST: validation and bottle construction *)

\* a limit that already rejects a message of exactly the maximum length
TooLongInclusive(m) == Len(m) >= MAX_MESSAGE_LENGTH

TooLong(m) == Len(m) > MAX_MESSAGE_LENGTH

EmptyMessage(message) ==
    \/ FieldFalsy(message)
    \/ message.type # "string"
    \/ Len(Trim(message.v)) = 0

\* the response validation ends the request with, NoResp when it passes
ValidationResp(message) ==
    IF EmptyMessage(message) THEN EmptyMessageResp
    ELSE IF TooLong(message.v) THEN TooLongResp
    ELSE NoResp

\* a bottle that keeps the message as received
MakeBottleUntrimmed(m, t1, r, t2) == [id |-> <<t1, r>>, message |-> m, timestamp |-> t2]

\* t1, t2: the two Date.now() calls; r: the random suffix
MakeBottle(m, t1, r, t2) == [id |-> <<t1, r>>, message |-> Trim(m), timestamp |-> t2]

-----------------------------------------------------------------------------
(* GET: empty check, index, defensive parse *)

\* an empty check that never fires for a count of 0
EmptyCountNegative(count) == count < 0

EmptyCount(count) == count = 0

\* Math.floor(Math.random() * count), Math.random() in [0, 1)
\* Math.ceil in place of Math.floor: index 0 is never drawn
RandomIndicesCeil(count) == IF count <= 0 THEN {0} ELSE 1..count

\* a draw that always lands on the head of the list
RandomIndicesHead(count) == {0}

RandomIndices(count) == IF count <= 0 THEN {0} ELSE 0..(count - 1)

\* lines 901-952: [ok, bottle]; ok = FALSE is any of the throws
ParseBottle(bottleData) ==
    LET p1 == JsonParse(bottleData)
        p2 == IF p1.ok /\ TypeOf(p1.data) = "string" THEN JsonParse(p1.data) ELSE p1
        thrown ==
            IF TypeOf(bottleData) = "string" THEN ~p1.ok \/ ~p2.ok
            ELSE ~(TypeOf(bottleData) = "object" /\ bottleData # NullData)
        parsed == IF TypeOf(bottleData) = "string" THEN p2.data ELSE bottleData
        j == parsed.json
        valid ==
            /\ ~Falsy(parsed)
            /\ TypeOf(parsed) = "object"
            /\ ~FieldFalsy(j.id) /\ j.id.type = "string"
            /\ ~FieldFalsy(j.message) /\ j.message.type = "string"
            /\ j.timestamp.type = "number"
    IN  IF ~thrown /\ valid
        THEN [ok |-> TRUE,
              bottle |-> [id |-> j.id.v, message |-> j.message.v,
                          timestamp |-> j.timestamp.v]]
        ELSE [ok |-> FALSE, bottle |-> NoBottle]

\* the same without the null check of lines 892-899
PickOutcomeUnchecked(bottleData) ==
    IF ParseBottle(bottleData).ok THEN PickResp(ParseBottle(bottleData).bottle)
    ELSE CorruptResp

\* lines 892-972: the response for what lindex returned
PickOutcome(bottleData) ==
    IF Falsy(bottleData) THEN NotFetchedResp
    ELSE IF ParseBottle(bottleData).ok THEN PickResp(ParseBottle(bottleData).bottle)
    ELSE CorruptResp

-----------------------------------------------------------------------------
(* Credentials *)

\* getRedisConfig yields both a url and a token
Configured == env.url /\ env.token

Envs == {[url |-> TRUE, token |-> TRUE], [url |-> FALSE, token |-> TRUE],
         [url |-> TRUE, token |-> FALSE]}

-----------------------------------------------------------------------------------------------------------------------------------------------------
(* The handler from its entry to its first await on the store, or to its   *)
(* response when it ends before one.  A body the handler never reads is    *)
(* not recorded.                                                           *)

HandlerEntry(method, body, t1, r, t2) ==
    LET unread == [IdleSlot EXCEPT !.method = method]
        req == [IdleSlot EXCEPT !.method = method, !.body = body]
    IN  IF method = "OPTIONS" THEN Done(unread, OptionsResp)
        ELSE IF runtime = "edge" /\ ~Configured THEN Done(unread, ConfigErrorResp)
        ELSE IF method = "POST" THEN
            IF body.kind = "invalid" THEN Done(req, InvalidBodyResp)
            ELSE IF body.kind = "null" THEN Done(req, InternalErrorResp)
            ELSE IF ValidationResp(body.message) # NoResp
                 THEN Done(req, ValidationResp(body.message))
            ELSE [req EXCEPT !.pc = "lpush",
                             !.bottle = MakeBottle(body.message.v, t1, r, t2)]
        ELSE IF method = "GET" THEN [unread EXCEPT !.pc = "llen"]
        ELSE Done(unread, MethodNotAllowedResp)

\* the handlers with a store command outstanding that will prepend
Pushing == {x \in Slots : slot[x].pc = "lpush"}

\* A request arrives and runs to its first store command or its response.
ReceiveFrom(s, methods, bodies) ==
    /\ slot[s].pc = "idle"
    /\ \E method \in methods :
         \E body \in IF method = "POST" THEN bodies ELSE {NoBody} :
           \E tp \in IF method = "POST" THEN TimePairs ELSE {<<1, 1>>} :
             \E r \in IF method = "POST" THEN Rands ELSE {1} :
               /\ method = "POST" => Len(pushed) + Cardinality(Pushing) < MaxProduce
               /\ slot' = [slot EXCEPT ![s] = HandlerEntry(method, body, tp[1], r, tp[2])]
               /\ redisInstance' =
                    (redisInstance \/ (runtime = "nodejs" /\ method # "OPTIONS"))
    /\ UNCHANGED <<list, pushed, bgTrims, trimErrorLogged, env, runtime, notStore>>

Receive(s) == ReceiveFrom(s, QueueMethods, QueueBodies)

ReceiveAny(s) == ReceiveFrom(s, Methods, Bodies)

\* a throw that prepends and answers without ever issuing its trim
LPushOkNoTrim(s) ==
    /\ slot[s].pc = "lpush"
    /\ list' = LPush(list, Stringify(slot[s].bottle))
    /\ pushed' = <<slot[s].bottle>> \o pushed
    /\ slot' = [slot EXCEPT ![s] = Done(@, ThrowResp(slot[s].bottle))]
    /\ UNCHANGED <<bgTrims, trimErrorLogged, redisInstance, env, runtime, notStore>>

\* lpush succeeds.  nodejs: the trim is issued in the background and the
\* response returned; edge: the handler awaits the trim.
LPushOk(s) ==
    /\ slot[s].pc = "lpush"
    /\ list' = LPush(list, Stringify(slot[s].bottle))
    /\ pushed' = <<slot[s].bottle>> \o pushed
    /\ IF runtime = "nodejs"
       THEN /\ bgTrims' = bgTrims + 1
            /\ slot' = [slot EXCEPT ![s] = Done(@, ThrowResp(slot[s].bottle))]
       ELSE /\ bgTrims' = bgTrims
            /\ slot' = [slot EXCEPT ![s].pc = "ltrim"]
    /\ UNCHANGED <<trimErrorLogged, redisInstance, env, runtime, notStore>>

\* a rejected lpush that is swallowed: the handler answers as if it had stored
LPushFailSwallowed(s) ==
    /\ slot[s].pc = "lpush"
    /\ slot' = [slot EXCEPT ![s] = Done(@, ThrowResp(slot[s].bottle))]
    /\ UNCHANGED <<list, pushed, bgTrims, trimErrorLogged, redisInstance, env, runtime, notStore>>

\* lpush rejects: the catch answers 500
LPushFail(s) ==
    /\ slot[s].pc = "lpush"
    /\ slot' = [slot EXCEPT ![s] = Done(@, SaveFailedResp)]
    /\ UNCHANGED <<list, pushed, bgTrims, trimErrorLogged, redisInstance, env, runtime, notStore>>

\* edge: the awaited ltrim succeeds
LTrimOk(s) ==
    /\ slot[s].pc = "ltrim"
    /\ list' = TrimToCapacity(list)
    /\ slot' = [slot EXCEPT ![s] = Done(@, ThrowResp(slot[s].bottle))]
    /\ UNCHANGED <<pushed, bgTrims, trimErrorLogged, redisInstance, env, runtime, notStore>>

\* edge: the awaited ltrim rejects inside the same try as lpush
LTrimFail(s) ==
    /\ slot[s].pc = "ltrim"
    /\ slot' = [slot EXCEPT ![s] = Done(@, SaveFailedResp)]
    /\ trimErrorLogged' = TRUE
    /\ UNCHANGED <<list, pushed, bgTrims, redisInstance, env, runtime, notStore>>

\* nodejs: a background ltrim succeeds
BackgroundTrimOk ==
    /\ bgTrims > 0
    /\ list' = TrimToCapacity(list)
    /\ bgTrims' = bgTrims - 1
    /\ UNCHANGED <<pushed, slot, trimErrorLogged, redisInstance, env, runtime, notStore>>

\* nodejs: a background ltrim rejects; its .catch logs
BackgroundTrimFail ==
    /\ bgTrims > 0
    /\ bgTrims' = bgTrims - 1
    /\ trimErrorLogged' = TRUE
    /\ UNCHANGED <<list, pushed, slot, redisInstance, env, runtime, notStore>>

\* llen succeeds: 404 on 0, else the random index is drawn and lindex issued
LLenOk(s) ==
    /\ slot[s].pc = "llen"
    /\ LET count == LLen(list)
       IN  IF EmptyCount(count)
           THEN slot' = [slot EXCEPT ![s] = Done(@, EmptySeaResp)]
           ELSE \E i \in RandomIndices(count) :
                  slot' = [slot EXCEPT ![s].pc = "lindex", ![s].randomIndex = i]
    /\ UNCHANGED <<list, pushed, bgTrims, trimErrorLogged, redisInstance, env, runtime, notStore>>

LLenFail(s) ==
    /\ slot[s].pc = "llen"
    /\ slot' = [slot EXCEPT ![s] = Done(@, RetrieveFailedResp)]
    /\ UNCHANGED <<list, pushed, bgTrims, trimErrorLogged, redisInstance, env, runtime, notStore>>

\* lindex succeeds and leaves the list as `after`; the handler answers
PickAt(s, after) ==
    /\ slot[s].pc = "lindex"
    /\ \E bottleData \in ClientViews(LIndex(list, slot[s].randomIndex)) :
         slot' = [slot EXCEPT ![s] = Done(@, PickOutcome(bottleData))]
    /\ list' = after
    /\ UNCHANGED <<pushed, bgTrims, trimErrorLogged, redisInstance, env, runtime, notStore>>

\* a read that takes the entry out of the list
LIndexOkRemoving(s) ==
    PickAt(s, [i \in 1..(Len(list) - 1) |->
                 IF i <= slot[s].randomIndex THEN list[i] ELSE list[i + 1]])

LIndexOk(s) == PickAt(s, list)

LIndexFail(s) ==
    /\ slot[s].pc = "lindex"
    /\ slot' = [slot EXCEPT ![s] = Done(@, RetrieveFailedResp)]
    /\ UNCHANGED <<list, pushed, bgTrims, trimErrorLogged, redisInstance, env, runtime, notStore>>

\* the response has been delivered; the invocation ends
Release(s) ==
    /\ slot[s].pc = "done"
    /\ slot' = [slot EXCEPT ![s] = IdleSlot]
    /\ UNCHANGED <<list, pushed, bgTrims, trimErrorLogged, redisInstance, env, runtime, notStore>>

\* the store's and the handlers' steps after arrival
Step(s) ==
    \/ LPushOk(s)
    \/ LPushFail(s)
    \/ LTrimOk(s)
    \/ LTrimFail(s)
    \/ LLenOk(s)
    \/ LLenFail(s)
    \/ LIndexOk(s)
    \/ LIndexFail(s)
    \/ Release(s)

-----------------------------------------------------------------------------
(* Channel names: createPublicChannelName and createPrivateChannelName of  *)
(* the browser library and of the server utilities.  A name is the prefix, *)
(* a hyphen and the sanitised characters.                                  *)

\* a letter, the three punctuation characters the pattern allows, and two
\* characters it does not
NameChars == {"a", "_", ".", "-", " ", "!"}

\* [a-zA-Z0-9_\-\.]
ClientAllowed == {"a", "_", "-", "."}
\* a server pattern without the dot: [a-zA-Z0-9_\-]
ServerAllowedNoDot == {"a", "_", "-"}

ServerAllowed == {"a", "_", "-", "."}

NameInputs == UNION {[1..n -> NameChars] : n \in 0..MaxNameLen}

\* the prefix argument: left out, or given
PrefixArgs == {"default", "x"}

\* a sanitisation that removes the characters it does not allow
ClientSanitizeDropping(s) == SelectSeq(s, LAMBDA ch : ch \in ClientAllowed)

\* browser: replace(/[^a-zA-Z0-9_\-\.]/g, "_")
ClientSanitize(s) ==
    [i \in 1..Len(s) |-> IF s[i] \in ClientAllowed THEN s[i] ELSE "_"]

\* server: replace(/[^a-zA-Z0-9_\-\.]/g, "_")
ServerSanitize(s) ==
    [i \in 1..Len(s) |-> IF s[i] \in ServerAllowed THEN s[i] ELSE "_"]

\* the prefix in effect for a function of this kind
PrefixOf(kind, prefix) == IF prefix = "default" THEN kind ELSE prefix

\* browser: `${prefix}-${sanitized}`
ClientChannelName(kind, s, prefix) ==
    <<PrefixOf(kind, prefix), "-">> \o ClientSanitize(s)

\* server: `${prefix}-${sanitized}`
ServerChannelName(kind, s, prefix) ==
    <<PrefixOf(kind, prefix), "-">> \o ServerSanitize(s)

NoNaming ==
    [side |-> "none", kind |-> "none", input |-> <<>>, prefix |-> "default",
     result |-> <<>>]

\* a call of the browser's createPublicChannelName / createPrivateChannelName
ClientCreateChannelName(kind, s, prefix) ==
    /\ naming' = [side |-> "client", kind |-> kind, input |-> s, prefix |-> prefix,
                  result |-> ClientChannelName(kind, s, prefix)]
    /\ UNCHANGED notNaming

\* a call of the server's createPublicChannelName / createPrivateChannelName
ServerCreateChannelName(kind, s, prefix) ==
    /\ naming' = [side |-> "server", kind |-> kind, input |-> s, prefix |-> prefix,
                  result |-> ServerChannelName(kind, s, prefix)]
    /\ UNCHANGED notNaming

NamingIdle == naming = NoNaming

-----------------------------------------------------------------------------
(* The server-side publisher: getPusherInstance, sendPusherRealtimeEvent   *)
(* and sendMultiplePusherRealtimeEvents.  A call runs synchronously to its *)
(* pusher.trigger calls; each trigger's promise then settles on its own.   *)

PusherEnvs == [appId : BOOLEAN, key : BOOLEAN, secret : BOOLEAN]

\* no publish call in flight.  A call has the number of events its caller
\* passed, the state of each trigger made for them, and its promise's outcome.
NoCall ==
    [op |-> "none", silent |-> FALSE, requested |-> 0, items |-> <<>>,
     outcome |-> "none"]

\* !appId || !key || !secret
CredentialsMissing == ~pusherEnv.appId \/ ~pusherEnv.key \/ ~pusherEnv.secret

\* an instance constructed whatever the credentials
GetPusherInstanceUnchecked ==
    [instance |-> TRUE, cached |-> TRUE, log |-> {}, reads |-> FALSE]

\* getPusherInstance(): whether it returns an instance (else null), the
\* cached instance afterwards, what it logs, and whether it read the
\* PUSHER_* variables of process.env
GetPusherInstance ==
    IF pusherInstance
    THEN [instance |-> TRUE, cached |-> TRUE, log |-> {}, reads |-> FALSE]
    ELSE IF CredentialsMissing
         THEN [instance |-> FALSE, cached |-> FALSE, log |-> {"config missing"},
               reads |-> TRUE]
         ELSE [instance |-> TRUE, cached |-> TRUE, log |-> {}, reads |-> TRUE]

\* the batch sizes a caller passes
BatchSizes == 0..MaxItems

\* sendPusherRealtimeEvent up to its await: resolved at once without an
\* instance, else one trigger outstanding
SendPusherRealtimeEvent(silent) ==
    /\ call.op = "none"
    /\ triggerCalls < MaxTriggers
    /\ LET got == GetPusherInstance
       IN  /\ pusherInstance' = got.cached
           /\ IF ~got.instance
              THEN /\ call' = [op |-> "send", silent |-> silent, requested |-> 1,
                               items |-> <<>>,
                               outcome |-> "resolved"]
                   /\ pusherLog' = pusherLog \cup got.log
                                     \cup (IF silent THEN {} ELSE {"skipped"})
                   /\ triggerCalls' = triggerCalls
              ELSE /\ call' = [op |-> "send", silent |-> silent, requested |-> 1,
                               items |-> <<"pending">>, outcome |-> "pending"]
                   /\ pusherLog' = pusherLog \cup got.log
                   /\ triggerCalls' = triggerCalls + 1
    /\ UNCHANGED <<pusherEnv, notPublisher>>

\* the awaited trigger resolves: the function returns
TriggerOk ==
    /\ call.op = "send" /\ call.outcome = "pending"
    /\ call' = [call EXCEPT !.items = <<"sent">>, !.outcome = "resolved"]
    /\ UNCHANGED <<pusherInstance, pusherEnv, triggerCalls, pusherLog, notPublisher>>

\* the awaited trigger rejects: the catch logs unless silent, and rethrows
TriggerFail ==
    /\ call.op = "send" /\ call.outcome = "pending"
    /\ call' = [call EXCEPT !.items = <<"failed">>, !.outcome = "rejected"]
    /\ pusherLog' = pusherLog \cup (IF call.silent THEN {} ELSE {"send failed"})
    /\ UNCHANGED <<pusherInstance, pusherEnv, triggerCalls, notPublisher>>

\* sendMultiplePusherRealtimeEvents up to its await: events.map calls
\* pusher.trigger for each item; without an instance the first call is a
\* property read on null and the function's promise is rejected
SendMultiplePusherRealtimeEvents(n) ==
    /\ call.op = "none"
    /\ triggerCalls + n <= MaxTriggers
    /\ LET got == GetPusherInstance
       IN  /\ pusherInstance' = got.cached
           /\ pusherLog' = pusherLog \cup got.log
           /\ IF ~got.instance
              THEN /\ call' = [op |-> "batch", silent |-> FALSE, requested |-> n,
                               items |-> <<>>,
                               outcome |-> IF n = 0 THEN "resolved" ELSE "rejected"]
                   /\ triggerCalls' = triggerCalls
              ELSE /\ call' = [op |-> "batch", silent |-> FALSE, requested |-> n,
                               items |-> [i \in 1..n |-> "pending"],
                               outcome |-> IF n = 0 THEN "resolved" ELSE "pending"]
                   /\ triggerCalls' = triggerCalls + n
    /\ UNCHANGED <<pusherEnv, notPublisher>>

\* Promise.all: resolved once every item's promise is
AllSettled(items) ==
    IF \A j \in 1..Len(items) : items[j] # "pending" THEN "resolved" ELSE "pending"

\* one item's trigger resolves
ItemOk(i) ==
    /\ call.op = "batch" /\ i \in 1..Len(call.items) /\ call.items[i] = "pending"
    /\ LET items == [call.items EXCEPT ![i] = "sent"]
       IN  call' = [call EXCEPT !.items = items, !.outcome = AllSettled(items)]
    /\ UNCHANGED <<pusherInstance, pusherEnv, triggerCalls, pusherLog, notPublisher>>

\* a rejection that takes the rest of the batch with it
ItemFailCancelling(i) ==
    /\ call.op = "batch" /\ i \in 1..Len(call.items) /\ call.items[i] = "pending"
    /\ LET items == [j \in 1..Len(call.items) |->
                       IF call.items[j] = "pending" THEN "failed" ELSE call.items[j]]
       IN  call' = [call EXCEPT !.items = items, !.outcome = AllSettled(items)]
    /\ pusherLog' = pusherLog \cup {"batch item failed"}
    /\ UNCHANGED <<pusherInstance, pusherEnv, triggerCalls, notPublisher>>

\* one item's trigger rejects: its .catch logs and resolves
ItemFail(i) ==
    /\ call.op = "batch" /\ i \in 1..Len(call.items) /\ call.items[i] = "pending"
    /\ LET items == [call.items EXCEPT ![i] = "failed"]
       IN  call' = [call EXCEPT !.items = items, !.outcome = AllSettled(items)]
    /\ pusherLog' = pusherLog \cup {"batch item failed"}
    /\ UNCHANGED <<pusherInstance, pusherEnv, triggerCalls, notPublisher>>

\* the caller has the settled promise; the next call can be made
CallReturns ==
    /\ call.outcome \in {"resolved", "rejected"}
    /\ call' = NoCall
    /\ UNCHANGED <<pusherInstance, pusherEnv, triggerCalls, pusherLog, notPublisher>>

-----------------------------------------------------------------------------
(* The browser side: the transport client singleton (getPusherClient),     *)
(* subscriptions (subscribePusherRealtime) and the React adapter           *)
(* (usePusherRealtime).  JavaScript runs each call to completion, so a     *)
(* call is one step; the transport's signals arrive between calls.         *)

Adapters == 1..NumAdapters
Channels == {"c1", "c2"}
EventNames == {"e1", "e2"}
Topics == {<<"c1", "e1">>, <<"c1", "e2">>, <<"c2", "e1">>}
Payloads == 1..MaxPayload

\* a getPusherClient that constructs a client on every call
GetPusherClientFresh ==
    [client |-> constructed + 1, constructed |-> constructed + 1]

\* getPusherClient(): the client returned and the singleton afterwards
GetPusherClient ==
    IF pusherClient = 0
    THEN [client |-> constructed + 1, constructed |-> constructed + 1]
    ELSE [client |-> pusherClient, constructed |-> constructed]

\* a closure of subscribePusherRealtime: its let variables, whether its
\* eventHandler is bound on the channel, the handle it returned; and, as
\* history, the client it was given, the events its onEvent has been
\* called with, whether onError has been called, and how many times
\* unsubscribe() has been called
NewSubscription(topic, autoSubscribe, throws, owner) ==
    LET attached == autoSubscribe /\ ~throws
    IN  [channel |-> IF attached THEN topic[1] ELSE "null",
         event |-> topic[2],
         isSubscribed |-> attached,
         bound |-> attached,
         handleIsSubscribed |-> attached,
         owner |-> owner,
         client |-> IF autoSubscribe THEN GetPusherClient.client ELSE 0,
         received |-> {},
         errored |-> autoSubscribe /\ throws,
         createdAt |-> Len(events),
         unsubscribes |-> 0]

\* channel.unbind(eventName) without the handler: every handler of the event
UnbindEvent(ss, i) ==
    [j \in 1..Len(ss) |->
        IF ss[j].channel = ss[i].channel /\ ss[j].event = ss[i].event
        THEN [ss[j] EXCEPT !.bound = FALSE] ELSE ss[j]]

\* channel.unbind(eventName, eventHandler): that one handler
Unbind(ss, i) == [ss EXCEPT ![i].bound = FALSE]

\* an unsubscribe that clears the flag and leaves the handler bound
UnsubscribeOfFlagOnly(ss, i) ==
    [ss EXCEPT ![i].isSubscribed = FALSE,
               ![i].unsubscribes = Min(@ + 1, MaxUnsubscribes)]

\* the unsubscribe closure of subscription i
UnsubscribeOf(ss, i) ==
    IF ss[i].channel # "null" /\ ss[i].isSubscribed
    THEN [Unbind(ss, i) EXCEPT ![i].isSubscribed = FALSE,
                               ![i].unsubscribes = Min(@ + 1, MaxUnsubscribes)]
    ELSE [ss EXCEPT ![i].unsubscribes = Min(@ + 1, MaxUnsubscribes)]

\* pusher.subscribe(channelName): a new channel starts its handshake, a
\* known one is returned as it is
ChannelsAfter(topic, autoSubscribe, throws) ==
    IF autoSubscribe /\ ~throws /\ channelState[topic[1]] = "none"
    THEN [channelState EXCEPT ![topic[1]] = "pending"]
    ELSE channelState

\* the singleton and the count after a subscribePusherRealtime call
ClientAfter(autoSubscribe) ==
    IF autoSubscribe THEN GetPusherClient
    ELSE [client |-> pusherClient, constructed |-> constructed]

\* usePusherRealtime before its first render
NoAdapter ==
    [phase |-> "unmounted", enabled |-> FALSE, topic |-> <<"c1", "e1">>,
     data |-> 0, isConnected |-> FALSE, error |-> FALSE,
     subscriptionRef |-> 0, effectSub |-> 0]

\* handleError, then setIsConnected(subscription.isSubscribed)
AfterSubscribe(ad, sub, i) ==
    [ad EXCEPT !.error = IF sub.errored THEN TRUE ELSE @,
               !.isConnected = sub.handleIsSubscribed,
               !.subscriptionRef = i]

\* code calls subscribePusherRealtime directly
SubscribePusherRealtime(topic, autoSubscribe, throws) ==
    /\ Len(subs) < MaxSubs
    /\ subs' = Append(subs, NewSubscription(topic, autoSubscribe, throws, 0))
    /\ channelState' = ChannelsAfter(topic, autoSubscribe, throws)
    /\ pusherClient' = ClientAfter(autoSubscribe).client
    /\ constructed' = ClientAfter(autoSubscribe).constructed
    /\ UNCHANGED <<events, adapter, notClient>>

\* the holder of handle i calls unsubscribe()
Unsubscribe(i) ==
    /\ i \in 1..Len(subs) /\ subs[i].owner = 0
    /\ subs' = UnsubscribeOf(subs, i)
    /\ UNCHANGED <<pusherClient, constructed, events, channelState, adapter, notClient>>

\* the effect of usePusherRealtime for adapter a over subscriptions ss,
\* in a behaviour of at most `limit` subscriptions
RunEffectWithin(limit, a, ad, ss, throws) ==
    IF ~ad.enabled
    THEN /\ adapter' = [adapter EXCEPT ![a] = [ad EXCEPT !.effectSub = 0]]
         /\ subs' = ss
         /\ UNCHANGED <<channelState, pusherClient, constructed>>
    ELSE /\ Len(ss) < limit
         /\ LET sub == NewSubscription(ad.topic, TRUE, throws, a)
            IN  /\ subs' = Append(ss, sub)
                /\ adapter' = [adapter EXCEPT ![a] =
                      [AfterSubscribe(ad, sub, Len(ss) + 1)
                          EXCEPT !.effectSub = Len(ss) + 1]]
         /\ channelState' = ChannelsAfter(ad.topic, TRUE, throws)
         /\ pusherClient' = GetPusherClient.client
         /\ constructed' = GetPusherClient.constructed

RunEffect(a, ad, ss, throws) == RunEffectWithin(MaxSubs, a, ad, ss, throws)

\* the effect's cleanup: the subscription it created is unsubscribed
CleanedUp(ad, ss) ==
    IF ad.effectSub = 0 THEN [ad |-> ad, ss |-> ss]
    ELSE [ad |-> [ad EXCEPT !.subscriptionRef = 0, !.effectSub = 0],
          ss |-> UnsubscribeOf(ss, ad.effectSub)]

\* first render and effect
MountWithin(limit, a, topic, enabled, throws) ==
    /\ adapter[a].phase = "unmounted"
    /\ RunEffectWithin(limit, a,
                       [NoAdapter EXCEPT !.phase = "mounted", !.topic = topic,
                                         !.enabled = enabled], subs, throws)
    /\ UNCHANGED <<events, notClient>>

Mount(a, topic, enabled, throws) == MountWithin(MaxSubs, a, topic, enabled, throws)

\* a render with other values of enabled, channel or event, the effect's
\* dependencies: cleanup of the previous effect, then the effect
RerenderWithin(limit, a, topic, enabled, throws) ==
    /\ adapter[a].phase = "mounted"
    /\ <<topic, enabled>> # <<adapter[a].topic, adapter[a].enabled>>
    /\ LET c == CleanedUp(adapter[a], subs)
       IN  RunEffectWithin(limit, a,
                           [c.ad EXCEPT !.topic = topic, !.enabled = enabled],
                           c.ss, throws)
    /\ UNCHANGED <<events, notClient>>

Rerender(a, topic, enabled, throws) == RerenderWithin(MaxSubs, a, topic, enabled, throws)

\* the component unmounts: cleanup
Unmount(a) ==
    /\ adapter[a].phase = "mounted"
    /\ LET c == CleanedUp(adapter[a], subs)
       IN  /\ adapter' = [adapter EXCEPT ![a] = [c.ad EXCEPT !.phase = "gone"]]
           /\ subs' = c.ss
    /\ UNCHANGED <<pusherClient, constructed, events, channelState, notClient>>

\* the resubscribe callback
ResubscribeWithin(limit, a, throws) ==
    /\ adapter[a].phase = "mounted"
    /\ Len(subs) < limit
    /\ LET ad == adapter[a]
           ss == IF ad.subscriptionRef # 0 THEN UnsubscribeOf(subs, ad.subscriptionRef)
                 ELSE subs
           sub == NewSubscription(ad.topic, TRUE, throws, a)
       IN  /\ subs' = Append(ss, sub)
           /\ adapter' = [adapter EXCEPT ![a] = AfterSubscribe(ad, sub, Len(ss) + 1)]
           /\ channelState' = ChannelsAfter(ad.topic, TRUE, throws)
    /\ pusherClient' = GetPusherClient.client
    /\ constructed' = GetPusherClient.constructed
    /\ UNCHANGED <<events, notClient>>

Resubscribe(a, throws) == ResubscribeWithin(MaxSubs, a, throws)

\* the handlers the channel calls for an event of this topic
BoundTo(topic) ==
    {i \in 1..Len(subs) :
        subs[i].bound /\ subs[i].channel = topic[1] /\ subs[i].event = topic[2]}

\* handleEvent that merges with the previous value instead of replacing it
HandleEventMerging(ad, data) ==
    [ad EXCEPT !.data = IF @ = 0 THEN data ELSE @, !.isConnected = TRUE,
               !.error = FALSE]

\* handleEvent: setData, setIsConnected(true), setError(null)
HandleEvent(ad, data) ==
    [ad EXCEPT !.data = data, !.isConnected = TRUE, !.error = FALSE]

\* handleError: setError, setIsConnected(false)
HandleError(ad) == [ad EXCEPT !.error = TRUE, !.isConnected = FALSE]

\* the transport delivers an event on a subscribed channel: every bound
\* eventHandler calls its onEvent; a state setter of an unmounted
\* component does nothing
Deliver(topic, data) ==
    /\ Len(events) < MaxEvents
    /\ channelState[topic[1]] = "subscribed"
    /\ events' = Append(events, [channel |-> topic[1], event |-> topic[2], data |-> data])
    /\ subs' = [i \in 1..Len(subs) |->
                  IF i \in BoundTo(topic)
                  THEN [subs[i] EXCEPT !.received = @ \cup {Len(events) + 1}]
                  ELSE subs[i]]
    /\ adapter' = [a \in Adapters |->
                  IF adapter[a].phase = "mounted"
                     /\ \E i \in BoundTo(topic) : subs[i].owner = a
                  THEN HandleEvent(adapter[a], data) ELSE adapter[a]]
    /\ UNCHANGED <<pusherClient, constructed, channelState, notClient>>

\* pusher:subscription_succeeded on a channel: every closure on it sets
\* isSubscribed
SubscriptionSucceeded(ch) ==
    /\ channelState[ch] = "pending"
    /\ channelState' = [channelState EXCEPT ![ch] = "subscribed"]
    /\ subs' = [i \in 1..Len(subs) |->
                  IF subs[i].channel = ch THEN [subs[i] EXCEPT !.isSubscribed = TRUE]
                  ELSE subs[i]]
    /\ UNCHANGED <<pusherClient, constructed, events, adapter, notClient>>

\* pusher:subscription_error on a channel: every closure on it calls onError
SubscriptionError(ch) ==
    /\ channelState[ch] = "pending"
    /\ channelState' = [channelState EXCEPT ![ch] = "failed"]
    /\ subs' = [i \in 1..Len(subs) |->
                  IF subs[i].channel = ch THEN [subs[i] EXCEPT !.errored = TRUE]
                  ELSE subs[i]]
    /\ adapter' = [a \in Adapters |->
                  IF adapter[a].phase = "mounted"
                     /\ \E i \in 1..Len(subs) : subs[i].channel = ch /\ subs[i].owner = a
                  THEN HandleError(adapter[a]) ELSE adapter[a]]
    /\ UNCHANGED <<pusherClient, constructed, events, notClient>>

ClientIdle ==
    /\ pusherClient = 0
    /\ constructed = 0
    /\ subs = <<>>
    /\ events = <<>>
    /\ channelState = [ch \in Channels |-> "none"]
    /\ adapter = [a \in Adapters |-> NoAdapter]

PublisherIdle ==
    /\ pusherInstance = FALSE
    /\ call = NoCall
    /\ triggerCalls = 0
    /\ pusherLog = {}

\* the publisher where the store's specifications leave it
PublisherUnused == PublisherIdle /\ pusherEnv = [appId |-> TRUE, key |-> TRUE, secret |-> TRUE]

\* the rest of the system where the store's specifications leave it
ElsewhereUnused == PublisherUnused /\ ClientIdle /\ NamingIdle

-----------------------------------------------------------------------------
(* The store's specifications *)

InitStore ==
    /\ ElsewhereUnused
    /\ list = <<>>
    /\ pushed = <<>>
    /\ slot = [s \in Slots |-> IdleSlot]
    /\ bgTrims = 0
    /\ trimErrorLogged = FALSE
    /\ redisInstance = FALSE
    /\ runtime \in Runtimes

(* The concurrent queue: a configured deployment, valid throws and picks   *)
(* arriving in every slot.                                                 *)

Init == InitStore /\ env = [url |-> TRUE, token |-> TRUE]

Next ==
    \/ \E s \in Slots : Receive(s)
    \/ \E s \in Slots : Step(s)
    \/ BackgroundTrimOk
    \/ BackgroundTrimFail

Spec == Init /\ [][Next]_vars

(* The endpoint's inputs: every method and body, configured or not, one    *)
(* request at a time.                                                      *)

InitInputs == InitStore /\ env \in Envs

NextInputs ==
    \/ ReceiveAny(1)
    \/ Step(1)
    \/ BackgroundTrimOk
    \/ BackgroundTrimFail

SpecInputs == InitInputs /\ [][NextInputs]_vars

(* Picks against a list that holds values the handler did not write: the  *)
(* key is shared with every other holder of the credentials.               *)

StoredFields ==
    {JUndefined, JNumber, [type |-> "number", v |-> 0], JString(<<>>),
     JString(<<"a">>)}

\* an object with the three fields of a bottle
StoredBottle ==
    [kind |-> "object", id |-> JString(<<"a">>), message |-> JString(<<"a">>),
     timestamp |-> JNumber]

\* the JSON texts of objects with any of these id, message and timestamp
\* fields, the JSON text of null, a string that is not JSON, and a bottle
\* encoded again and again by whoever wrote it
StoredValues ==
    {[layers |-> 1,
      json |-> [kind |-> "object", id |-> i, message |-> m, timestamp |-> ts]] :
         i \in StoredFields, m \in StoredFields, ts \in StoredFields}
    \cup {[layers |-> 1, json |-> JsonNull],
          [layers |-> 0, json |-> [JsonNull EXCEPT !.kind = "text"]]}
    \cup {[layers |-> n, json |-> StoredBottle] : n \in 2..MaxLayers}

ReceivePick(s) == ReceiveFrom(s, {"GET"}, {NoBody})

InitStored ==
    /\ ElsewhereUnused
    /\ list \in UNION {[1..n -> StoredValues] : n \in 1..MaxStored}
    /\ pushed = <<>>
    /\ slot = [s \in Slots |-> IdleSlot]
    /\ bgTrims = 0
    /\ trimErrorLogged = FALSE
    /\ redisInstance = FALSE
    /\ runtime \in Runtimes
    /\ env = [url |-> TRUE, token |-> TRUE]

NextStored ==
    \/ ReceivePick(1)
    \/ LLenOk(1)
    \/ LLenFail(1)
    \/ LIndexOk(1)
    \/ LIndexFail(1)
    \/ Release(1)

SpecStored == InitStored /\ [][NextStored]_vars

(* The publisher: every configuration, calls one after another.           *)

StoreUnused ==
    /\ list = <<>>
    /\ pushed = <<>>
    /\ slot = [s \in Slots |-> IdleSlot]
    /\ bgTrims = 0
    /\ trimErrorLogged = FALSE
    /\ redisInstance = FALSE
    /\ runtime = "nodejs"
    /\ env = [url |-> TRUE, token |-> TRUE]

InitPublisher ==
    StoreUnused /\ ClientIdle /\ NamingIdle /\ PublisherIdle /\ pusherEnv \in PusherEnvs

NextPublisher ==
    \/ \E silent \in BOOLEAN : SendPusherRealtimeEvent(silent)
    \/ TriggerOk
    \/ TriggerFail
    \/ \E n \in BatchSizes : SendMultiplePusherRealtimeEvents(n)
    \/ \E i \in 1..MaxItems : ItemOk(i)
    \/ \E i \in 1..MaxItems : ItemFail(i)
    \/ CallReturns

SpecPublisher == InitPublisher /\ [][NextPublisher]_vars

(* The browser: direct subscriptions and one adapter on one client.        *)

InitClient == StoreUnused /\ PublisherUnused /\ NamingIdle /\ ClientIdle

NextClient ==
    \/ \E topic \in Topics, autoSubscribe \in BOOLEAN, throws \in BOOLEAN :
          SubscribePusherRealtime(topic, autoSubscribe, throws)
    \/ \E i \in 1..MaxSubs : Unsubscribe(i)
    \/ \E a \in Adapters, topic \in Topics, enabled \in BOOLEAN, throws \in BOOLEAN :
          Mount(a, topic, enabled, throws)
    \/ \E a \in Adapters, topic \in Topics, enabled \in BOOLEAN, throws \in BOOLEAN :
          Rerender(a, topic, enabled, throws)
    \/ \E a \in Adapters : Unmount(a)
    \/ \E a \in Adapters, throws \in BOOLEAN : Resubscribe(a, throws)
    \/ \E topic \in Topics, data \in Payloads : Deliver(topic, data)
    \/ \E ch \in Channels : SubscriptionSucceeded(ch)
    \/ \E ch \in Channels : SubscriptionError(ch)

SpecClient == InitClient /\ [][NextClient]_vars

(* One adapter through its renders, resubscribes and unmount, on two       *)
(* channels.                                                               *)

AdapterTopics == {<<"c1", "e1">>, <<"c2", "e1">>}

NextAdapter ==
    \/ \E a \in Adapters, topic \in AdapterTopics, enabled \in BOOLEAN, throws \in BOOLEAN :
          MountWithin(MaxAdapterSubs, a, topic, enabled, throws)
    \/ \E a \in Adapters, topic \in AdapterTopics, enabled \in BOOLEAN, throws \in BOOLEAN :
          RerenderWithin(MaxAdapterSubs, a, topic, enabled, throws)
    \/ \E a \in Adapters : Unmount(a)
    \/ \E a \in Adapters, throws \in BOOLEAN : ResubscribeWithin(MaxAdapterSubs, a, throws)
    \/ \E topic \in AdapterTopics, data \in Payloads : Deliver(topic, data)
    \/ \E ch \in Channels : SubscriptionSucceeded(ch)
    \/ \E ch \in Channels : SubscriptionError(ch)

SpecAdapter == InitClient /\ [][NextAdapter]_vars

(* Channel names: every function on every input, one call after another.  *)

InitNaming == StoreUnused /\ PublisherUnused /\ ClientIdle /\ NamingIdle

NextNaming ==
    \/ \E kind \in {"public", "private"}, s \in NameInputs, prefix \in PrefixArgs :
          ClientCreateChannelName(kind, s, prefix)
    \/ \E kind \in {"public", "private"}, s \in NameInputs, prefix \in PrefixArgs :
          ServerCreateChannelName(kind, s, prefix)

SpecNaming == InitNaming /\ [][NextNaming]_vars

-----------------------------------------------------------------------------
(* Properties *)

\* a trim command completes successfully
TrimCompletes == BackgroundTrimOk \/ \E s \in Slots : LTrimOk(s)

\* no prepend and no trim is outstanding
Quiescent ==
    /\ bgTrims = 0
    /\ \A s \in Slots : slot[s].pc \notin {"lpush", "ltrim"}

\* the MAX_BOTTLES most recently prepended bottles as stored, newest first
Survivors == [i \in 1..MAX_BOTTLES |-> Stringify(pushed[i])]

\* C1: in the state right after a trim of any throw completes successfully
\* the list holds at most MAX_BOTTLES entries, whatever the interleaving.
C1_LengthAfterTrim == [][TrimCompletes => Len(list') <= MAX_BOTTLES]_vars

\* more than MAX_BOTTLES prepends happened and a trim has cut the list
C1_Witness == Len(pushed) > MAX_BOTTLES /\ Len(list) = MAX_BOTTLES

C3_TrimFailureNeverSurfaces ==
    [][\A s \in Slots :
         (slot[s].pc \in {"lpush", "ltrim"} /\ slot'[s].pc = "done" /\ ~LPushFail(s))
             => slot'[s].resp.status = 200]_vars

\* a throw in slot s that has answered
ThrowDone(s) == slot[s].pc = "done" /\ slot[s].method = "POST"

\* a pick in slot s that has answered
PickDone(s) == slot[s].pc = "done" /\ slot[s].method = "GET"

\* the body carries a string message
HasStringMessage(body) == body.kind = "object" /\ body.message.type = "string"

\* the response of a configured store none of whose commands failed
StoreReachable(resp) == resp \notin {SaveFailedResp, ConfigErrorResp}

\* C4 as claimed: every message whose trimmed length is 1..1000 is accepted
\* and, the store being reachable, answered 200.
C4_Original ==
    \A s \in Slots :
        (/\ ThrowDone(s) /\ HasStringMessage(slot[s].body)
         /\ Len(Trim(slot[s].body.message.v)) \in 1..MAX_MESSAGE_LENGTH
         /\ StoreReachable(slot[s].resp))
            => slot[s].resp.status = 200

\* C4 amended: every message that is non-empty after trimming and whose
\* untrimmed length is at most 1000 is accepted and, the store being
\* reachable, answered 200.
C4_AcceptsByRawLength ==
    \A s \in Slots :
        (/\ ThrowDone(s) /\ HasStringMessage(slot[s].body)
         /\ Len(Trim(slot[s].body.message.v)) >= 1
         /\ Len(slot[s].body.message.v) <= MAX_MESSAGE_LENGTH
         /\ StoreReachable(slot[s].resp))
            => slot[s].resp.status = 200

\* a message of exactly the maximum length, with whitespace, thrown with success
C4_Witness ==
    \E s \in Slots :
        /\ ThrowDone(s) /\ slot[s].resp.status = 200
        /\ slot[s].body.message.v = <<" ", "a">>

\* the throw in slot p is the only prepend so far and has answered 200
SingleWriter(p) ==
    /\ Len(pushed) = 1
    /\ ThrowDone(p) /\ slot[p].resp.status = 200

\* the pick in slot g answers with p's id and timestamp and the message m
PicksThrown(g, p, m) ==
    slot'[g].resp =
        Resp(200, "", "", [id |-> slot[p].resp.bottle.id, message |-> m,
                           timestamp |-> slot[p].resp.bottle.timestamp])

\* C5 as claimed: single writer, initially empty queue; a pick after the
\* successful throw finds the list non-empty and returns the message as
\* given to the throw, with the id and timestamp the throw returned.
C5_Original ==
    [][\A p, g \in Slots :
         SingleWriter(p) =>
            /\ LLenOk(g) => slot'[g].pc = "lindex"
            /\ LIndexOk(g) => PicksThrown(g, p, slot[p].body.message.v)]_vars

\* C5 amended: the same, the message returned being the trimmed message.
C5_RoundTripsTrimmed ==
    [][\A p, g \in Slots :
         SingleWriter(p) =>
            /\ LLenOk(g) => slot'[g].pc = "lindex"
            /\ LIndexOk(g) => PicksThrown(g, p, Trim(slot[p].body.message.v))]_vars

\* " a" thrown, then picked up as "a" with the throw's id and timestamp
C5_Witness ==
    \E p, g \in Slots :
        /\ SingleWriter(p) /\ slot[p].body.message.v = <<" ", "a">>
        /\ PickDone(g) /\ slot[g].resp.status = 200
        /\ slot[g].resp.bottle =
             [slot[p].resp.bottle EXCEPT !.message = <<"a">>]

\* the body has no message, or one that is not a string, empty after
\* trimming, or longer than the maximum
Rejectable(body) ==
    \/ body.kind = "null"
    \/ /\ body.kind = "object"
       /\ \/ body.message.type # "string"
          \/ Trim(body.message.v) = <<>>
          \/ Len(body.message.v) > MAX_MESSAGE_LENGTH

\* C6 as claimed: a throw with such a body is answered 400 before any store
\* command: the request is never found waiting on the store.
C6_RejectsWithValidationError ==
    \A s \in Slots :
        (slot[s].method = "POST" /\ Rejectable(slot[s].body))
            => (slot[s].pc = "done" /\ slot[s].resp.status = 400)

\* C7: a pick whose llen reads 0 ends there with 404 "No bottles in the
\* sea": no lindex is issued and no 500 returned.
C7_EmptyQueue ==
    [][\A s \in Slots :
         (LLenOk(s) /\ LLen(list) = 0)
            => (slot'[s].pc = "done" /\ slot'[s].resp = EmptySeaResp)]_vars

\* a pick has answered that the sea is empty
C7_Witness == \E s \in Slots : PickDone(s) /\ slot[s].resp = EmptySeaResp

\* slot s takes a step of a pick: its arrival, a store reply, its release
PickStep(s) ==
    /\ slot'[s] # slot[s]
    /\ slot[s].method = "GET" \/ slot'[s].method = "GET"

\* C8: no step of a pick, whatever its outcome, changes the list.
C8_ConsumeLeavesQueue == [][(\E s \in Slots : PickStep(s)) => list' = list]_vars

\* two picks have returned the same bottle, which is still in the list
C8_Witness ==
    /\ \A s \in Slots : PickDone(s) /\ slot[s].resp.status = 200
    /\ slot[1].resp = slot[2].resp
    /\ \E i \in 1..Len(list) : list[i] = Stringify(slot[1].resp.bottle)

\* C9: when lindex finds nothing at the chosen index (the list has been
\* trimmed since llen), the pick answers 500 "Failed to retrieve bottle"
\* with no bottle.
C9_PastTheEnd ==
    [][\A s \in Slots :
         (LIndexOk(s) /\ LIndex(list, slot[s].randomIndex) = NullData)
            => (slot'[s].pc = "done" /\ slot'[s].resp = NotFetchedResp)]_vars

\* a pick has answered that nothing was at its index
C9_Witness == \E s \in Slots : PickDone(s) /\ slot[s].resp = NotFetchedResp

\* C10: a successful pick returns the id, message and timestamp of one
\* bottle that a throw has prepended.
C10_ReturnsProducedEntry ==
    \A s \in Slots :
        (PickDone(s) /\ slot[s].resp.status = 200)
            => \E i \in 1..Len(pushed) : slot[s].resp.bottle = pushed[i]

\* a pick has returned a bottle other than the newest while a trim is pending
C10_Witness ==
    \E s \in Slots :
        /\ PickDone(s) /\ slot[s].resp.status = 200
        /\ Len(pushed) > 1 /\ slot[s].resp.bottle = pushed[2]
        /\ slot[s].resp.bottle # pushed[1]
        /\ bgTrims > 0

\* some pick of the list as it is returns bottle b: an index below the
\* length at which lindex, whatever form the client hands back, yields b
Reachable(b) ==
    \E idx \in RandomIndices(LLen(list)) :
        \A bottleData \in ClientViews(LIndex(list, idx)) :
            PickOutcome(bottleData) = PickResp(b)

\* C11: once at most MAX_BOTTLES throws against the empty list and all
\* their trims have completed, every bottle thrown can be picked up.
C11_EveryMessageReachable ==
    (Quiescent /\ Len(pushed) <= MAX_BOTTLES)
        => \A i \in 1..Len(pushed) : Reachable(pushed[i])

\* two throws with distinct messages have completed, trims included
C11_Witness ==
    /\ Quiescent /\ Len(pushed) = 2
    /\ pushed[1].message # pushed[2].message
    /\ \A s \in Slots : ThrowDone(s) /\ slot[s].resp.status = 200

\* the lpush of slot s settles without having prepended
PrependFails(s) ==
    /\ slot[s].pc = "lpush" /\ slot'[s].pc # "lpush"
    /\ pushed' = pushed

\* C12: a throw whose lpush fails answers 500 "Failed to save bottle",
\* issues no trim and leaves the list unchanged; a throw answers 200 only
\* with the id and timestamp of a bottle that has been prepended.
C12_PrependFailure ==
    /\ [][\A s \in Slots :
            PrependFails(s) =>
               /\ slot'[s].pc = "done" /\ slot'[s].resp = SaveFailedResp
               /\ bgTrims' = bgTrims /\ list' = list]_vars
    /\ [](\A s \in Slots :
            (ThrowDone(s) /\ slot[s].resp.status = 200)
               => \E i \in 1..Len(pushed) :
                    /\ pushed[i].id = slot[s].resp.bottle.id
                    /\ pushed[i].timestamp = slot[s].resp.bottle.timestamp)

\* a throw has been answered 500 "Failed to save bottle" with nothing stored
C12_Witness ==
    \E s \in Slots :
        /\ ThrowDone(s) /\ slot[s].resp = SaveFailedResp
        /\ pushed = <<>> /\ list = <<>> /\ bgTrims = 0 /\ ~trimErrorLogged

\* a field that is a non-empty string
NonEmptyString(f) == f.type = "string" /\ f.v # <<>>

\* an object all of whose three fields have the types of a bottle
WellFormed(j) ==
    /\ j.kind = "object"
    /\ NonEmptyString(j.id) /\ NonEmptyString(j.message)
    /\ j.timestamp.type = "number"

\* C13: a pick whose lindex returns an object that fails field validation
\* answers 500 "Failed to parse bottle", and a pick answers 200 only with
\* the three fields of a well-formed stored object.
C13_CorruptEntry ==
    /\ [][\A s \in Slots :
            (/\ LIndexOk(s)
             /\ LIndex(list, slot[s].randomIndex).json.kind = "object"
             /\ ~WellFormed(LIndex(list, slot[s].randomIndex).json))
               => (slot'[s].pc = "done" /\ slot'[s].resp = CorruptResp)]_vars
    /\ [](\A s \in Slots :
            (PickDone(s) /\ slot[s].resp.status = 200)
               => \E i \in 1..Len(list) :
                    /\ WellFormed(list[i].json)
                    /\ slot[s].resp.bottle =
                         [id |-> list[i].json.id.v,
                          message |-> list[i].json.message.v,
                          timestamp |-> list[i].json.timestamp.v])

\* a pick of an object whose id is the empty string has answered corrupt
C13_Witness ==
    \E s \in Slots :
        /\ PickDone(s) /\ slot[s].resp = CorruptResp
        /\ Len(list) = 1
        /\ list[1].json.kind = "object"
        /\ list[1].json.id = JString(<<>>)
        /\ NonEmptyString(list[1].json.message)
        /\ list[1].json.timestamp.type = "number"

\* C14 as claimed: the promise of a send with silent = true is never
\* rejected, whatever the trigger does.
C14_SilentNeverRejects ==
    (call.op = "send" /\ call.silent) => call.outcome # "rejected"

\* C15 as claimed: the promise of a batch is never rejected, whatever its
\* items, their triggers' outcomes and the credentials.
C15_BatchNeverRejects == call.op = "batch" => call.outcome # "rejected"

\* a send is being called
SendCalled == call.op = "none" /\ call'.op = "send"

\* C16: with a credential missing, a send, silent or not, makes no trigger
\* call and its promise is resolved on return.
C16_NoOpWithoutCredentials ==
    [][(CredentialsMissing /\ SendCalled)
          => (call'.outcome = "resolved" /\ triggerCalls' = triggerCalls)]_vars

\* without the secret, a send that was not silent and then a silent one
\* have both resolved with no trigger call made
C16_Witness ==
    /\ ~pusherEnv.secret /\ pusherEnv.appId /\ pusherEnv.key
    /\ "skipped" \in pusherLog
    /\ call.op = "send" /\ call.silent /\ call.outcome = "resolved"
    /\ triggerCalls = 0

\* the subscriptions that asked for the client
Callers == {i \in 1..Len(subs) : subs[i].client # 0}

\* C17: at most one transport client is ever constructed, none before the
\* first call that needs it, and every caller is given that one.
C17_OneClient ==
    /\ constructed <= 1
    /\ constructed = 0 <=> Callers = {}
    /\ \A i \in Callers : subs[i].client = pusherClient

\* an adapter has mounted and unmounted and a direct subscription followed,
\* all on the one client
C17_Witness ==
    /\ constructed = 1
    /\ Len(subs) = 2
    /\ subs[1].owner = 1 /\ subs[2].owner = 0
    /\ subs[1].client = 1 /\ subs[2].client = 1
    /\ adapter[1].phase = "gone"

\* subscription i was attached to its channel and event when created
Attached(i) == subs[i].channel # "null"

\* the events of subscription i's channel and event delivered after the
\* first n
EventsAfter(i, n) ==
    {k \in (n + 1)..Len(events) :
        events[k].channel = subs[i].channel /\ events[k].event = subs[i].event}

\* C18: of two subscriptions to the same channel and event, each one not
\* unsubscribed has received every event delivered after both were
\* created, whether or not the other has been unsubscribed.
C18_BothReceive ==
    \A i, j \in 1..Len(subs) :
        (/\ i # j /\ Attached(i) /\ Attached(j)
         /\ subs[i].channel = subs[j].channel /\ subs[i].event = subs[j].event
         /\ subs[j].unsubscribes = 0)
            => EventsAfter(j, IF subs[i].createdAt > subs[j].createdAt
                              THEN subs[i].createdAt ELSE subs[j].createdAt)
                  \subseteq subs[j].received

\* both received the first event; the first was then unsubscribed and the
\* second alone received the next event
C18_Witness ==
    /\ Len(subs) = 2 /\ Len(events) = 2
    /\ subs[1].owner = 0 /\ subs[2].owner = 0
    /\ subs[1].channel = subs[2].channel /\ subs[1].event = subs[2].event
    /\ subs[1].received = {1} /\ subs[1].unsubscribes = 1
    /\ subs[2].received = {1, 2} /\ subs[2].unsubscribes = 0

\* C19: a subscription whose unsubscribe() has returned receives no
\* further event, and a further unsubscribe() of it changes no binding on
\* the channel and calls nothing.
C19_Cancelled ==
    [][\A i \in 1..Len(subs) :
         subs[i].unsubscribes > 0 =>
            /\ subs'[i].received = subs[i].received
            /\ subs'[i].unsubscribes > subs[i].unsubscribes =>
                  \A j \in 1..Len(subs) :
                     /\ subs'[j].bound = subs[j].bound
                     /\ subs'[j].received = subs[j].received
                     /\ subs'[j].errored = subs[j].errored]_vars

\* unsubscribed twice; an event of its channel and event was delivered
\* after the first time and has not reached it
C19_Witness ==
    \E i \in 1..Len(subs) :
        /\ Attached(i) /\ subs[i].unsubscribes = 2
        /\ ~subs[i].bound /\ ~subs[i].isSubscribed
        /\ EventsAfter(i, subs[i].createdAt) # {}
        /\ subs[i].received = {}

\* adapter a is mounted with a handler bound for this channel and event
Listening(a, channel, event) ==
    /\ adapter[a].phase = "mounted"
    /\ \E i \in 1..Len(subs) :
         /\ subs[i].owner = a /\ subs[i].bound
         /\ subs[i].channel = channel /\ subs[i].event = event

\* C20: an event delivered to an adapter with a bound subscription leaves
\* data equal to that event's payload, isConnected true and error null;
\* data changes at no other time.
C20_DataIsLastEvent ==
    [][\A a \in Adapters :
         IF Len(events') = Len(events) + 1
         THEN LET e == events'[Len(events')]
              IN  Listening(a, e.channel, e.event) =>
                     /\ adapter'[a].data = e.data
                     /\ adapter'[a].isConnected
                     /\ ~adapter'[a].error
         ELSE (adapter[a].phase = "mounted" /\ adapter'[a].phase = "mounted")
                 => adapter'[a].data = adapter[a].data]_vars

\* two events with different payloads have reached the adapter, which
\* shows the second
C20_Witness ==
    /\ Len(events) = 2 /\ events[1].data # events[2].data
    /\ adapter[1].phase = "mounted"
    /\ adapter[1].data = events[2].data
    /\ adapter[1].isConnected /\ ~adapter[1].error
    /\ \E i \in 1..Len(subs) :
         subs[i].owner = 1 /\ subs[i].bound /\ subs[i].received = {1, 2}

\* the handlers adapter a has bound
BoundBy(a) == {i \in 1..Len(subs) : subs[i].owner = a /\ subs[i].bound}

\* the channel or event of adapter a changes while it stays enabled
TopicChanges(a) ==
    /\ adapter[a].phase = "mounted" /\ adapter'[a].phase = "mounted"
    /\ adapter[a].enabled /\ adapter'[a].enabled
    /\ adapter'[a].topic # adapter[a].topic

\* C21 as claimed: when the channel or event of an enabled adapter
\* changes, the old handler is unbound: afterwards the adapter has at most
\* one event handler bound, and it is bound to the new channel and event.
C21_OneHandlerOnCurrentTopic ==
    [][\A a \in Adapters :
         TopicChanges(a) =>
            \A i \in 1..Len(subs') :
               (subs'[i].owner = a /\ subs'[i].bound) =>
                  /\ <<subs'[i].channel, subs'[i].event>> = adapter'[a].topic
                  /\ \A j \in 1..Len(subs') :
                       (subs'[j].owner = a /\ subs'[j].bound) => j = i]_vars

\* adapter a takes an exit path: it unmounts, its channel or event
\* changes, or enabled becomes false
Exits(a) ==
    /\ adapter[a].phase = "mounted"
    /\ \/ adapter'[a].phase = "gone"
       \/ adapter'[a].topic # adapter[a].topic
       \/ adapter[a].enabled /\ ~adapter'[a].enabled

\* C22 as claimed: on every exit path of an adapter, every handler it had
\* bound is unbound, whatever resubscribe() calls came before.
C22_TeardownUnbindsAll ==
    [][\A a \in Adapters :
         Exits(a) => \A i \in BoundBy(a) : ~subs'[i].bound]_vars

\* C23 as claimed: while the handshake of the channel an adapter has
\* subscribed to is pending, the adapter reports isConnected = false.
C23_SubscribingBeforeConnected ==
    \A a \in Adapters :
        (/\ adapter[a].phase = "mounted"
         /\ adapter[a].subscriptionRef # 0
         /\ Attached(adapter[a].subscriptionRef)
         /\ channelState[subs[adapter[a].subscriptionRef].channel] = "pending")
            => ~adapter[a].isConnected

\* C24 as claimed: two calls of createPublicChannelName with the default
\* prefix and different topics return different channel names.
C24_NoCollision ==
    [][(/\ naming.kind = "public" /\ naming'.kind = "public"
        /\ naming.prefix = "default" /\ naming'.prefix = "default"
        /\ naming.input # naming'.input)
          => naming.result # naming'.result]_vars

\* C25 as claimed: with the store's url or token not configured, every throw
\* and every pick ends at once with the configuration-error response, and no
\* handler is ever waiting on a store command.
C25_UnconfiguredAlwaysRefuses ==
    ~Configured =>
        \A s \in Slots :
            (slot[s].pc # "idle" /\ slot[s].method \in {"POST", "GET"}) =>
                /\ slot[s].pc = "done"
                /\ slot[s].resp = ConfigErrorResp

\* C26: entries are immutable and leave only by eviction.  In every step,
\* each entry of the list either is still in the list, with the same content
\* and behind exactly the entries prepended since, or the step is a trim
\* that completed while at least MAX_BOTTLES newer entries preceded it.
C26_ImmutableUntilEvicted ==
    [][\A i \in 1..Len(list) :
         LET j == i + (Len(pushed') - Len(pushed))
         IN  IF j <= Len(list')
             THEN list'[j] = list[i]
             ELSE TrimCompletes /\ i > MAX_BOTTLES]_vars

\* the oldest of three distinguishable throws has been evicted, the two
\* newer ones are in place, and a pick is reading the list
C26_Witness ==
    /\ Len(pushed) = 3 /\ Len(list) = MAX_BOTTLES
    /\ pushed[3] \notin {pushed[1], pushed[2]}
    /\ \A i \in 1..MAX_BOTTLES : list[i] = Stringify(pushed[i])
    /\ \E s \in Slots : slot[s].pc = "lindex"

\* C27: concurrent throws lose no write.  Once at most MAX_BOTTLES throws
\* have prepended to the initially empty list and no prepend or trim is
\* outstanding, the list holds each thrown bottle exactly as often as it
\* was thrown, and nothing else.
C27_NoLostWrite ==
    (Quiescent /\ Len(pushed) <= MAX_BOTTLES) =>
        /\ Len(list) = Len(pushed)
        /\ \A i \in 1..Len(pushed) :
             Cardinality({j \in 1..Len(list) : list[j] = Stringify(pushed[i])})
                 = Cardinality({j \in 1..Len(pushed) : pushed[j] = pushed[i]})

\* edge: two throws with different ids were in flight together, both have
\* prepended and trimmed, and each bottle is in the list
C27_Witness ==
    /\ runtime = "edge" /\ Quiescent /\ Len(pushed) = 2
    /\ pushed[1].id # pushed[2].id
    /\ \A s \in Slots : slot[s].pc = "done" /\ slot[s].method = "POST"
    /\ \A i \in 1..2 : \E j \in 1..Len(list) : list[j] = Stringify(pushed[i])

\* the throws that have prepended and whose trim has not completed
TrimsOutstanding == bgTrims + Cardinality({s \in Slots : slot[s].pc = "ltrim"})

\* C28: as long as no trim has failed, the list exceeds MAX_BOTTLES by at
\* most the number of throws whose lpush has completed and whose ltrim has
\* not.
C28_ExcessBoundedByOutstandingTrims ==
    ~trimErrorLogged => Len(list) <= MAX_BOTTLES + TrimsOutstanding

\* the list is over capacity with a trim still to come and none failed
C28_Witness ==
    /\ ~trimErrorLogged
    /\ Len(list) > MAX_BOTTLES
    /\ TrimsOutstanding > 0

\* the llen of slot s has answered a positive count and the index is drawn
DrawsIndex(s) == slot[s].pc = "llen" /\ slot'[s].pc = "lindex"

\* C29: the index a pick reads is within the length it read.  Whenever llen
\* answers n >= 1, the index drawn satisfies 0 <= index < n, and for every
\* value in 0..n-1 there is a draw that chooses it.
C29_IndexWithinLength ==
    /\ [][\A s \in Slots :
            DrawsIndex(s) => slot'[s].randomIndex \in 0..(LLen(list) - 1)]_vars
    /\ [](\A s \in Slots :
            (slot[s].pc = "llen" /\ LLen(list) >= 1) =>
                \A i \in 0..(LLen(list) - 1) :
                    ENABLED (LLenOk(s) /\ slot'[s].randomIndex = i))

\* a pick of a list of two has drawn the last index
C29_Witness ==
    \E s \in Slots :
        /\ slot[s].pc = "lindex"
        /\ LLen(list) = 2
        /\ slot[s].randomIndex = 1

\* the bottle an object's three fields make
BottleIn(j) == [id |-> j.id.v, message |-> j.message.v, timestamp |-> j.timestamp.v]

StoreWaits == {"lpush", "ltrim", "llen", "lindex"}

\* C31: every request ends with a response of status 200, 400, 404, 405 or
\* 500.  A handler is idle, waiting on a store command, or has returned a
\* response with one of these statuses; a failed body parse, store command
\* or decode never leaves it without one.
C31_AlwaysAResponse ==
    \A s \in Slots :
        \/ slot[s].pc \in StoreWaits \cup {"idle"}
        \/ /\ slot[s].pc = "done"
           /\ slot[s].resp.status \in {200, 400, 404, 405, 500}

\* a throw whose body is the JSON null made the handler throw while reading
\* the message, and the request was answered 500 "Internal server error"
C31_Witness ==
    \E s \in Slots :
        /\ slot[s].pc = "done" /\ slot[s].method = "POST"
        /\ slot[s].body.kind = "null"
        /\ slot[s].resp = InternalErrorResp

\* the triggers of a batch other than item i are untouched by the step, and
\* those still pending can still complete
OthersUntouched(i) ==
    \A j \in 1..Len(call.items) :
        j # i => call'.items[j] = call.items[j]

CalledBefore == pusherInstance \/ "config missing" \in pusherLog

\* a publish call is made, and with it a call of getPusherInstance
PublishCalled == call.op = "none" /\ call'.op # "none"

\* C33 as claimed: the configuration is read once.  A call of
\* getPusherInstance after the first does not read the credentials again,
\* whether the first call found them present or absent.
C33_ConfigurationReadOnce ==
    [][(PublishCalled /\ CalledBefore) => ~GetPusherInstance.reads]_vars

\* the characters of NameChars in [A-Za-z0-9_.-]
KeptChars == {"a", "_", ".", "-"}

\* s with every character outside KeptChars replaced by "_"
Replaced(s) == [i \in 1..Len(s) |-> IF s[i] \in KeptChars THEN s[i] ELSE "_"]

\* the result of the last call without its prefix and hyphen
Sanitized == SubSeq(naming.result, 3, Len(naming.result))

\* C34: createPublicChannelName(s) is "public-", and
\* createPrivateChannelName(s) is "private-", followed by a string as long
\* as s that keeps each character of s in [A-Za-z0-9_.-] at its position
\* and has "_" for every other; sanitising the result again changes nothing.
C34_SanitizeCharacterised ==
    (naming.side # "none" /\ naming.prefix = "default") =>
        /\ Len(naming.result) = Len(naming.input) + 2
        /\ naming.result[1] = naming.kind /\ naming.result[2] = "-"
        /\ \A i \in 1..Len(naming.input) :
             /\ naming.input[i] \in KeptChars => Sanitized[i] = naming.input[i]
             /\ naming.input[i] \notin KeptChars => Sanitized[i] = "_"
        /\ Replaced(Sanitized) = Sanitized
        /\ ClientSanitize(Sanitized) = Sanitized
        /\ ServerSanitize(Sanitized) = Sanitized

\* the browser's createPublicChannelName was called with a topic that has a
\* kept character and a replaced one
C34_Witness ==
    /\ naming.side = "client" /\ naming.kind = "public" /\ naming.prefix = "default"
    /\ naming.input = <<"a", " ">>
    /\ naming.result = <<"public", "-", "a", "_">>

\* the call made in this step has the arguments of the one before it and
\* is made on the other side
SameCallOtherSide ==
    /\ naming.side # "none" /\ naming'.side # naming.side
    /\ naming'.kind = naming.kind
    /\ naming'.input = naming.input
    /\ naming'.prefix = naming.prefix

\* C35: the browser's and the server's naming functions agree.  The same
\* function called with the same topic or user id and the same prefix on
\* the other side returns the same channel name, and each result is what
\* both sides compute.
C35_ClientServerAgree ==
    /\ [][SameCallOtherSide => naming'.result = naming.result]_vars
    /\ [](naming.side # "none" =>
            /\ naming.result = ClientChannelName(naming.kind, naming.input, naming.prefix)
            /\ naming.result = ServerChannelName(naming.kind, naming.input, naming.prefix))

\* the server named a private channel with a given prefix for a user id
\* holding a dot and a replaced character, as the browser names it
C35_Witness ==
    /\ naming.side = "server" /\ naming.kind = "private" /\ naming.prefix = "x"
    /\ naming.input = <<".", "!">>
    /\ naming.result = ClientChannelName("private", <<".", "!">>, "x")

\* C36 as claimed: once unsubscribe() of a subscription has been called,
\* none of its callbacks is invoked again: onEvent receives no further
\* event and onError is not called by a later pusher:subscription_error.
C36_SilentAfterUnsubscribe ==
    [][\A i \in 1..Len(subs) :
         subs[i].unsubscribes > 0 =>
            /\ subs'[i].received = subs[i].received
            /\ subs'[i].errored = subs[i].errored]_vars

\* C37 as claimed: in every state of a mounted adapter a non-null error
\* implies isConnected is false, after resubscribe() from the failed state
\* too.
C37_ErrorMeansDisconnected ==
    \A a \in Adapters :
        (adapter[a].phase = "mounted" /\ adapter[a].error) => ~adapter[a].isConnected

\* C38 as claimed: a mounted adapter reports isConnected = true only while
\* it has a handler bound; once enabled has become false and the
\* subscription is released, isConnected is false.
C38_ConnectedOnlyWhileBound ==
    \A a \in Adapters :
        (adapter[a].phase = "mounted" /\ adapter[a].isConnected) => BoundBy(a) # {}

\* C39 as claimed: while enabled is false a mounted adapter has no handler
\* bound on any channel, whatever was called before, resubscribe() included.
C39_NothingBoundWhileDisabled ==
    \A a \in Adapters :
        (adapter[a].phase = "mounted" /\ ~adapter[a].enabled) => BoundBy(a) = {}

\* C40 as claimed: the isSubscribed field of the handle reflects the
\* subscription's current state: it equals the closure's isSubscribed, it
\* is false once unsubscribe() has been called, and it is false when
\* autoSubscribe was false or the subscribe attempt threw.
C40_HandleReflectsState ==
    \A i \in 1..Len(subs) :
        /\ subs[i].handleIsSubscribed = subs[i].isSubscribed
        /\ subs[i].unsubscribes > 0 => ~subs[i].handleIsSubscribed
        /\ ~Attached(i) => ~subs[i].handleIsSubscribed

====
